---- MODULE Spec2Model ----
(***************************************************************************)
(* Model of notebooks/create_index.ipynb: the index build of LegalGuardian. *)
(*                                                                         *)
(* A text is a sequence of one-character strings, " " being whitespace.    *)
(* A reference is a sequence of string tokens, so that the f-string that   *)
(* appends " - Fragment n" is a concatenation.  An embedding vector is     *)
(* the sequence <<"e5">> \o processed_text: the pretrained model is an     *)
(* opaque, fixed, per-text function (tokenizer truncation at 512 tokens is *)
(* far above the text lengths explored here).  The record keys and the     *)
(* fragment word of the source are Cyrillic; they are written here as      *)
(* "text", "reference" and "Fragment".                                     *)
(***************************************************************************)
EXTENDS Integers, Sequences, FiniteSets, TLC

VARIABLES pc, legal_data, max_chunk_size, overlap, item_i, words,
          current_position, chunks, references, batch_size, i,
          all_embeddings, embeddings, index, fs, error

vars == <<pc, legal_data, max_chunk_size, overlap, item_i, words,
          current_position, chunks, references, batch_size, i,
          all_embeddings, embeddings, index, fs, error>>

-----------------------------------------------------------------------------
(* Bounds of the exploration *)

MaxTextLen == 5
MaxChunkSize == 3
MaxOverlap == 3
MaxDocs == 2
MaxWindows == 6
MaxTexts == 3
MaxBatch == 3

(* encode(self, texts, batch_size=8, ...) *)
BatchSizeDefault == 8

-----------------------------------------------------------------------------
(* Python helpers *)

Min(a, b) == IF a < b THEN a ELSE b
Max(a, b) == IF a > b THEN a ELSE b

(* index normalisation of a Python slice bound on a list of length n *)
PyIdx(k, n) == IF k < 0 THEN Max(k + n, 0) ELSE Min(k, n)

(* s[a:b] *)
PySlice(s, a, b) ==
    LET lo == PyIdx(a, Len(s))
        hi == PyIdx(b, Len(s))
    IN  IF hi <= lo THEN <<>> ELSE SubSeq(s, lo + 1, hi)

(* str.split(): the maximal runs of non-whitespace characters *)
RECURSIVE SplitFrom(_, _)
SplitFrom(text, cur) ==
    IF text = <<>>
    THEN (IF cur = <<>> THEN <<>> ELSE <<cur>>)
    ELSE IF Head(text) = " "
         THEN (IF cur = <<>>
               THEN SplitFrom(Tail(text), <<>>)
               ELSE <<cur>> \o SplitFrom(Tail(text), <<>>))
         ELSE SplitFrom(Tail(text), Append(cur, Head(text)))

split(text) == SplitFrom(text, <<>>)

(* " ".join(ws) *)
RECURSIVE join(_)
join(ws) ==
    IF ws = <<>> THEN <<>>
    ELSE IF Len(ws) = 1 THEN ws[1]
    ELSE ws[1] \o <<" ">> \o join(Tail(ws))

(* str(n) of an integer, as in an f-string *)
Digit(d) == CASE d = 0 -> "0" [] d = 1 -> "1" [] d = 2 -> "2" [] d = 3 -> "3"
              [] d = 4 -> "4" [] d = 5 -> "5" [] d = 6 -> "6" [] d = 7 -> "7"
              [] d = 8 -> "8" [] d = 9 -> "9"

RECURSIVE Digits(_)
Digits(n) == IF n < 10 THEN <<Digit(n)>> ELSE Append(Digits(n \div 10), Digit(n % 10))

str(n) == IF n < 0 THEN <<"-">> \o Digits(0 - n) ELSE Digits(n)

-----------------------------------------------------------------------------
(* chunk_documents: the pieces of one loop iteration *)

(* the short branch taken only below max_chunk_size words *)
IsShortStrict(text, size) == Len(split(text)) < size

(* if len(text.split()) <= max_chunk_size *)
IsShort(text, size) == Len(split(text)) <= size

(* end_position = min(current_position + max_chunk_size, len(words)) *)
EndPosition(pos, size, n) == Min(pos + size, n)

(* chunk = " ".join(words[current_position:end_position]) *)
WindowText(ws, pos, size) == join(PySlice(ws, pos, EndPosition(pos, size, Len(ws))))

(* current_position//max_chunk_size + 1 *)
FragmentIndex(pos, size) == (pos \div size) + 1

(* ref_info = f"{reference} - Fragment {n}" *)
RefInfo(reference, pos, size) ==
    reference \o <<" - Fragment ">> \o str(FragmentIndex(pos, size))

(* the window advanced by a whole window, the overlap forgotten *)
NextPositionNoOverlap(pos, size, ov) == pos + size

(* current_position += max_chunk_size - overlap *)
NextPosition(pos, size, ov) == pos + size - ov

-----------------------------------------------------------------------------
(* E5Embedder.encode: the pieces *)

(* the pretrained model with pooling and normalisation, per text *)
model(processed) == <<"e5">> \o processed

(* processed_texts = [f"passage: {text}" for text in batch_texts] *)
Passage(text) == <<"passage: ">> \o text

(* texts[i:i+batch_size] *)
BatchTexts(texts, k, bs) == PySlice(texts, k, k + bs)

(* embeddings of one batch, in the batch's order *)
EncodeOneBatch(batch) == [k \in 1..Len(batch) |-> model(Passage(batch[k]))]

(* np.vstack(all_embeddings) of a non-empty list of batches *)
RECURSIVE vstack(_)
vstack(batches) ==
    IF batches = <<>> THEN <<>> ELSE Head(batches) \o vstack(Tail(batches))

-----------------------------------------------------------------------------
(* Input domains *)

Chars == {"a", "b", " "}

RECURSIVE SeqsUpTo(_, _)
SeqsUpTo(S, n) ==
    IF n = 0 THEN {<<>>}
    ELSE LET prev == SeqsUpTo(S, n - 1)
         IN  prev \cup {Append(s, x) : s \in {p \in prev : Len(p) = n - 1}, x \in S}

(* the text of the documented example: "a b c d e" *)
ExampleText == <<"a", " ", "b", " ", "c", " ", "d", " ", "e">>

Texts == SeqsUpTo(Chars, MaxTextLen) \cup {ExampleText}

Refs == {<<"R1">>, <<"R2">>}

Doc(t, r) == [text |-> t, reference |-> r]

(* records lacking one of the two keys *)
Malformed == {[reference |-> <<"R1">>], [text |-> <<"a">>]}

(* JSON values of another type than the code expects.  The field json marks
   a value that is no object (a number, null, a string, a list); the field
   text_json marks a record whose text is no string (a number, null, a list) *)
NotARecord == [json |-> "number"]
NonStringText == [text |-> <<>>, reference |-> <<"R1">>, text_json |-> "number"]
IllTyped == {NotARecord, NonStringText}

(* a top-level JSON value without a length (a number, null, a boolean) *)
NotSized == [json |-> "number"]

(* a document of nine words: with one-word steps it fills more than one
   batch of BatchSizeDefault chunks *)
LongText == <<"a", " ", "b", " ", "a", " ", "b", " ", "a", " ", "b", " ",
              "a", " ", "b", " ", "a">>

(* documents of zero, two, three and nine words for the whole-build runs *)
BuildTexts == {<<>>, <<"a", " ", "b">>, <<"b", " ", " ", "a", " ", "a">>, LongText}

BuildItems == {Doc(t, r) : t \in BuildTexts, r \in Refs} \cup Malformed \cup IllTyped

EncodeTexts == {<<>>, <<"a">>, <<"a", " ", "b">>}

(* an earlier build's artifacts, already in the output directory *)
OldChunks == << <<"o", "l", "d">> >>
OldReferences == << <<"R0">> >>
EmbeddingModelName == "intfloat/multilingual-e5-small"

NoBundle == [chunks |-> <<>>, references |-> <<>>, embedder_model |-> ""]

EmptyFs == [dir |-> FALSE,
            index_state |-> "absent", index_data |-> <<>>,
            bundle_state |-> "absent", bundle_data |-> NoBundle]

OldFs == [dir |-> TRUE,
          index_state |-> "complete", index_data |-> EncodeOneBatch(OldChunks),
          bundle_state |-> "complete",
          bundle_data |-> [chunks |-> OldChunks, references |-> OldReferences,
                           embedder_model |-> EmbeddingModelName]]

-----------------------------------------------------------------------------
(* Initial states *)

Idle ==
    /\ item_i = 1 /\ words = <<>> /\ current_position = 0
    /\ references = <<>>
    /\ i = 0 /\ all_embeddings = <<>> /\ embeddings = <<>> /\ index = <<>>
    /\ error = ""

(* the notebook's build cells, from load_data on; the build calls
   create_improved_faiss_index with its defaults, a positive window step *)
Init ==
    /\ pc = "load"
    /\ legal_data = <<>>
    /\ chunks = <<>>
    /\ max_chunk_size \in 1..MaxChunkSize
    /\ overlap \in 0..MaxOverlap
    /\ overlap < max_chunk_size
    /\ batch_size = BatchSizeDefault
    /\ fs \in {EmptyFs, OldFs}
    /\ Idle

(* one call of chunk_documents on one record *)
InitChunk ==
    /\ pc = "chunk_for"
    /\ legal_data \in {<<d>> : d \in {Doc(t, <<"R1">>) : t \in Texts}
                                      \cup Malformed \cup IllTyped}
    /\ chunks = <<>>
    /\ max_chunk_size \in 1..MaxChunkSize
    /\ overlap \in 0..MaxOverlap
    /\ batch_size = BatchSizeDefault
    /\ fs = EmptyFs
    /\ Idle

(* one call of E5Embedder.encode(texts, batch_size); texts is held in chunks *)
InitEncode ==
    /\ pc = "encode"
    /\ legal_data = <<>>
    /\ chunks \in SeqsUpTo(EncodeTexts, MaxTexts)
    /\ max_chunk_size = 1
    /\ overlap = 0
    /\ batch_size \in 1..MaxBatch
    /\ fs = EmptyFs
    /\ Idle

-----------------------------------------------------------------------------
(* load_data *)

LoadedData == SeqsUpTo(BuildItems, MaxDocs)

Load ==
    /\ pc = "load"
    /\ \E d \in LoadedData : legal_data' = d
    /\ pc' = "chunk_for"
    /\ UNCHANGED <<max_chunk_size, overlap, item_i, words, current_position,
                   chunks, references, batch_size, i, all_embeddings,
                   embeddings, index, fs, error>>

(* open(file_path, "r", encoding="utf-8") raises: the file is missing or
   unreadable (FileNotFoundError, PermissionError, ...: OSError) *)
LoadOpenFail ==
    /\ pc = "load"
    /\ pc' = "aborted"
    /\ error' = "OSError"
    /\ UNCHANGED <<legal_data, max_chunk_size, overlap, item_i, words,
                   current_position, chunks, references, batch_size, i,
                   all_embeddings, embeddings, index, fs>>

(* what json.load(f) raises: the content is not JSON (JSONDecodeError), is
   not UTF-8 (UnicodeDecodeError), is nested beyond the recursion limit
   (RecursionError), holds an integer of more digits than int() converts
   (ValueError), does not fit in memory (MemoryError), or the read itself
   fails (OSError) *)
LoadParseErrors == {"JSONDecodeError", "UnicodeDecodeError", "RecursionError",
                    "ValueError", "MemoryError", "OSError"}

LoadParseFail ==
    /\ pc = "load"
    /\ pc' = "aborted"
    /\ \E e \in LoadParseErrors : error' = e
    /\ UNCHANGED <<legal_data, max_chunk_size, overlap, item_i, words,
                   current_position, chunks, references, batch_size, i,
                   all_embeddings, embeddings, index, fs>>

(* the file holds a JSON value without a length: json.load returns it and
   len(legal_data) in the cell's print raises TypeError *)
LoadNotSized ==
    /\ pc = "load"
    /\ legal_data' = NotSized
    /\ pc' = "aborted"
    /\ error' = "TypeError"
    /\ UNCHANGED <<max_chunk_size, overlap, item_i, words, current_position,
                   chunks, references, batch_size, i, all_embeddings,
                   embeddings, index, fs>>

-----------------------------------------------------------------------------
(* chunk_documents *)

IsRecord(item) == "json" \notin DOMAIN item

TextIsStr(item) == "text_json" \notin DOMAIN item

HasKeys(item) == {"text", "reference"} \subseteq DOMAIN item

(* a record both lookups and text.split() succeed on *)
Chunkable(item) == IsRecord(item) /\ HasKeys(item) /\ TextIsStr(item)

(* item["..."] on a value that is no object raises TypeError *)
ChunkTypeError ==
    /\ pc = "chunk_for"
    /\ item_i <= Len(legal_data)
    /\ ~IsRecord(legal_data[item_i])
    /\ pc' = "aborted"
    /\ error' = "TypeError"
    /\ UNCHANGED <<legal_data, max_chunk_size, overlap, item_i, words,
                   current_position, chunks, references, batch_size, i,
                   all_embeddings, embeddings, index, fs>>

(* text.split() on a text that is no string raises AttributeError *)
ChunkAttributeError ==
    /\ pc = "chunk_for"
    /\ item_i <= Len(legal_data)
    /\ IsRecord(legal_data[item_i])
    /\ HasKeys(legal_data[item_i])
    /\ ~TextIsStr(legal_data[item_i])
    /\ pc' = "aborted"
    /\ error' = "AttributeError"
    /\ UNCHANGED <<legal_data, max_chunk_size, overlap, item_i, words,
                   current_position, chunks, references, batch_size, i,
                   all_embeddings, embeddings, index, fs>>

(* item["..."] raises KeyError *)
ChunkKeyError ==
    /\ pc = "chunk_for"
    /\ item_i <= Len(legal_data)
    /\ IsRecord(legal_data[item_i])
    /\ ~HasKeys(legal_data[item_i])
    /\ pc' = "aborted"
    /\ error' = "KeyError"
    /\ UNCHANGED <<legal_data, max_chunk_size, overlap, item_i, words,
                   current_position, chunks, references, batch_size, i,
                   all_embeddings, embeddings, index, fs>>

(* the short branch without its references.append(reference) *)
ChunkShortNoReference ==
    /\ pc = "chunk_for"
    /\ item_i <= Len(legal_data)
    /\ Chunkable(legal_data[item_i])
    /\ IsShort(legal_data[item_i].text, max_chunk_size)
    /\ chunks' = Append(chunks, legal_data[item_i].text)
    /\ item_i' = item_i + 1
    /\ UNCHANGED <<pc, legal_data, max_chunk_size, overlap, words,
                   current_position, references, batch_size, i,
                   all_embeddings, embeddings, index, fs, error>>

(* the short branch: the text as it is, the reference as it is *)
ChunkShort ==
    /\ pc = "chunk_for"
    /\ item_i <= Len(legal_data)
    /\ Chunkable(legal_data[item_i])
    /\ IsShort(legal_data[item_i].text, max_chunk_size)
    /\ chunks' = Append(chunks, legal_data[item_i].text)
    /\ references' = Append(references, legal_data[item_i].reference)
    /\ item_i' = item_i + 1
    /\ UNCHANGED <<pc, legal_data, max_chunk_size, overlap, words,
                   current_position, batch_size, i, all_embeddings,
                   embeddings, index, fs, error>>

(* words = text.split(); current_position = 0 *)
ChunkBeginLong ==
    /\ pc = "chunk_for"
    /\ item_i <= Len(legal_data)
    /\ Chunkable(legal_data[item_i])
    /\ ~IsShort(legal_data[item_i].text, max_chunk_size)
    /\ words' = split(legal_data[item_i].text)
    /\ current_position' = 0
    /\ pc' = "chunk_while"
    /\ UNCHANGED <<legal_data, max_chunk_size, overlap, item_i, chunks,
                   references, batch_size, i, all_embeddings, embeddings,
                   index, fs, error>>

(* one iteration of the while loop.  With a non-positive step the loop never
   ends; the exploration follows it for MaxWindows windows. *)
ChunkWindow ==
    /\ pc = "chunk_while"
    /\ current_position < Len(words)
    /\ (max_chunk_size - overlap > 0) \/ Len(chunks) < MaxWindows
    /\ chunks' = Append(chunks, WindowText(words, current_position, max_chunk_size))
    /\ references' = Append(references,
                            RefInfo(legal_data[item_i].reference,
                                    current_position, max_chunk_size))
    /\ current_position' = NextPosition(current_position, max_chunk_size, overlap)
    /\ UNCHANGED <<pc, legal_data, max_chunk_size, overlap, item_i, words,
                   batch_size, i, all_embeddings, embeddings, index, fs, error>>

(* the while condition is false: on to the next record *)
ChunkEndWhile ==
    /\ pc = "chunk_while"
    /\ ~(current_position < Len(words))
    /\ item_i' = item_i + 1
    /\ pc' = "chunk_for"
    /\ UNCHANGED <<legal_data, max_chunk_size, overlap, words,
                   current_position, chunks, references, batch_size, i,
                   all_embeddings, embeddings, index, fs, error>>

(* return chunks, references *)
ChunkReturn ==
    /\ pc = "chunk_for"
    /\ item_i > Len(legal_data)
    /\ pc' = "encode"
    /\ UNCHANGED <<legal_data, max_chunk_size, overlap, item_i, words,
                   current_position, chunks, references, batch_size, i,
                   all_embeddings, embeddings, index, fs, error>>

NextChunk ==
    \/ ChunkTypeError
    \/ ChunkKeyError
    \/ ChunkAttributeError
    \/ ChunkShort
    \/ ChunkBeginLong
    \/ ChunkWindow
    \/ ChunkEndWhile
    \/ ChunkReturn

SpecChunk == InitChunk /\ [][NextChunk]_vars

-----------------------------------------------------------------------------
(* E5Embedder.encode *)

(* one iteration of the batch loop *)
EncodeBatch ==
    /\ pc = "encode"
    /\ i < Len(chunks)
    /\ all_embeddings' = Append(all_embeddings,
                                EncodeOneBatch(BatchTexts(chunks, i, batch_size)))
    /\ i' = i + batch_size
    /\ UNCHANGED <<pc, legal_data, max_chunk_size, overlap, item_i, words,
                   current_position, chunks, references, batch_size,
                   embeddings, index, fs, error>>

(* a failing batch skipped instead of ending the run *)
EncodeFailSwallowed ==
    /\ pc = "encode"
    /\ i < Len(chunks)
    /\ i' = i + batch_size
    /\ UNCHANGED <<pc, legal_data, max_chunk_size, overlap, item_i, words,
                   current_position, chunks, references, batch_size,
                   all_embeddings, embeddings, index, fs, error>>

(* the tokenizer or the model raises on a batch *)
EncodeFail ==
    /\ pc = "encode"
    /\ i < Len(chunks)
    /\ pc' = "aborted"
    /\ error' = "RuntimeError"
    /\ UNCHANGED <<legal_data, max_chunk_size, overlap, item_i, words,
                   current_position, chunks, references, batch_size, i,
                   all_embeddings, embeddings, index, fs>>

(* np.vstack([]) raises ValueError: need at least one array *)
EncodeVstackEmpty ==
    /\ pc = "encode"
    /\ ~(i < Len(chunks))
    /\ all_embeddings = <<>>
    /\ pc' = "aborted"
    /\ error' = "ValueError"
    /\ UNCHANGED <<legal_data, max_chunk_size, overlap, item_i, words,
                   current_position, chunks, references, batch_size, i,
                   all_embeddings, embeddings, index, fs>>

(* return np.vstack(all_embeddings) *)
EncodeReturn ==
    /\ pc = "encode"
    /\ ~(i < Len(chunks))
    /\ all_embeddings # <<>>
    /\ embeddings' = vstack(all_embeddings)
    /\ pc' = "add"
    /\ UNCHANGED <<legal_data, max_chunk_size, overlap, item_i, words,
                   current_position, chunks, references, batch_size, i,
                   all_embeddings, index, fs, error>>

NextEncode ==
    \/ EncodeBatch
    \/ EncodeVstackEmpty
    \/ EncodeReturn

SpecEncode == InitEncode /\ [][NextEncode]_vars

-----------------------------------------------------------------------------
(* create_improved_faiss_index: index = faiss.IndexFlatIP(dimension);
   index.add(embeddings); return *)

IndexAdd ==
    /\ pc = "add"
    /\ index' = <<>> \o embeddings
    /\ pc' = "save_mkdir"
    /\ UNCHANGED <<legal_data, max_chunk_size, overlap, item_i, words,
                   current_position, chunks, references, batch_size, i,
                   all_embeddings, embeddings, fs, error>>

-----------------------------------------------------------------------------
(* save_index_components, one file-system effect per step *)

SavePcs == {"save_mkdir", "save_index_open", "save_index_write",
            "save_pkl_open", "save_pkl_dump"}

(* if not os.path.exists(output_path): os.makedirs(output_path) *)
SaveMakedirs ==
    /\ pc = "save_mkdir"
    /\ ~fs.dir
    /\ fs' = [fs EXCEPT !.dir = TRUE]
    /\ pc' = "save_index_open"
    /\ UNCHANGED <<legal_data, max_chunk_size, overlap, item_i, words,
                   current_position, chunks, references, batch_size, i,
                   all_embeddings, embeddings, index, error>>

SaveDirExists ==
    /\ pc = "save_mkdir"
    /\ fs.dir
    /\ pc' = "save_index_open"
    /\ UNCHANGED <<legal_data, max_chunk_size, overlap, item_i, words,
                   current_position, chunks, references, batch_size, i,
                   all_embeddings, embeddings, index, fs, error>>

(* faiss.write_index opens legal_index.faiss for writing: the file exists,
   truncated *)
SaveIndexOpen ==
    /\ pc = "save_index_open"
    /\ fs' = [fs EXCEPT !.index_state = "partial", !.index_data = <<>>]
    /\ pc' = "save_index_write"
    /\ UNCHANGED <<legal_data, max_chunk_size, overlap, item_i, words,
                   current_position, chunks, references, batch_size, i,
                   all_embeddings, embeddings, index, error>>

(* faiss.write_index has written the whole index *)
SaveIndexWrite ==
    /\ pc = "save_index_write"
    /\ fs' = [fs EXCEPT !.index_state = "complete", !.index_data = index]
    /\ pc' = "save_pkl_open"
    /\ UNCHANGED <<legal_data, max_chunk_size, overlap, item_i, words,
                   current_position, chunks, references, batch_size, i,
                   all_embeddings, embeddings, index, error>>

(* open(data_path, "wb"): chunks_references.pkl exists, truncated *)
SavePklOpen ==
    /\ pc = "save_pkl_open"
    /\ fs' = [fs EXCEPT !.bundle_state = "partial", !.bundle_data = NoBundle]
    /\ pc' = "save_pkl_dump"
    /\ UNCHANGED <<legal_data, max_chunk_size, overlap, item_i, words,
                   current_position, chunks, references, batch_size, i,
                   all_embeddings, embeddings, index, error>>

(* pickle.dump({...}, f) and the end of the with block *)
SavePklDump ==
    /\ pc = "save_pkl_dump"
    /\ fs' = [fs EXCEPT !.bundle_state = "complete",
                        !.bundle_data = [chunks |-> chunks,
                                         references |-> references,
                                         embedder_model |-> EmbeddingModelName]]
    /\ pc' = "done"
    /\ UNCHANGED <<legal_data, max_chunk_size, overlap, item_i, words,
                   current_position, chunks, references, batch_size, i,
                   all_embeddings, embeddings, index, error>>

(* the process is killed between two steps of save_index_components *)
Kill ==
    /\ pc \in SavePcs
    /\ pc' = "killed"
    /\ UNCHANGED <<legal_data, max_chunk_size, overlap, item_i, words,
                   current_position, chunks, references, batch_size, i,
                   all_embeddings, embeddings, index, fs, error>>

-----------------------------------------------------------------------------
(* The build run *)

Next ==
    \/ Load
    \/ LoadOpenFail
    \/ LoadParseFail
    \/ LoadNotSized
    \/ ChunkTypeError
    \/ ChunkKeyError
    \/ ChunkAttributeError
    \/ ChunkShort
    \/ ChunkBeginLong
    \/ ChunkWindow
    \/ ChunkEndWhile
    \/ ChunkReturn
    \/ EncodeBatch
    \/ EncodeFail
    \/ EncodeVstackEmpty
    \/ EncodeReturn
    \/ IndexAdd
    \/ SaveMakedirs
    \/ SaveDirExists
    \/ SaveIndexOpen
    \/ SaveIndexWrite
    \/ SavePklOpen
    \/ SavePklDump
    \/ Kill

Spec == Init /\ [][Next]_vars

-----------------------------------------------------------------------------
(* Properties of chunk_documents on one record (SpecChunk) *)

TheItem == legal_data[1]
WellFormed == Chunkable(TheItem)
WordCount == Len(split(TheItem.text))
ValidStep == 0 <= overlap /\ overlap < max_chunk_size
Returned == pc = "encode"

CeilDiv(a, b) == (a + b - 1) \div b

ExampleCall ==
    /\ WellFormed
    /\ TheItem.text = ExampleText
    /\ max_chunk_size = 3
    /\ overlap = 1

(* C1: a document of N > max_chunk_size words (0 <= overlap < max_chunk_size)
   is cut into exactly ceil((N - overlap) / (max_chunk_size - overlap)) chunks;
   "a b c d e" with max_chunk_size 3 and overlap 1 gives "a b c" and "c d e". *)
ChunkCountIsCeil ==
    (Returned /\ WellFormed /\ ValidStep /\ WordCount > max_chunk_size) =>
        /\ Len(chunks) = CeilDiv(WordCount - overlap, max_chunk_size - overlap)
        /\ ExampleCall => chunks = << <<"a", " ", "b", " ", "c">>,
                                      <<"c", " ", "d", " ", "e">> >>

(* C2: with overlap >= max_chunk_size the call is rejected before any window
   is produced: the window loop never holds an emitted window. *)
NonPositiveStepRejected ==
    (overlap >= max_chunk_size) => ~(pc = "chunk_while" /\ chunks # <<>>)

(* C3: no two chunks cut from one document carry the same reference. *)
ReferencesDistinct ==
    (WellFormed /\ ValidStep) =>
        \A a, b \in 1..Len(references) :
            a # b => references[a] # references[b]

(* C6: a document of zero words contributes no chunk and no reference. *)
EmptyDocumentNoChunk ==
    (Returned /\ WellFormed /\ WordCount = 0) =>
        (chunks = <<>> /\ references = <<>>)

(* the first chunk whole, and of each later chunk the words past the overlap *)
RECURSIVE NonOverlapping(_, _)
NonOverlapping(cs, k) ==
    IF k > Len(cs) THEN <<>>
    ELSE (IF k = 1
          THEN split(cs[k])
          ELSE PySlice(split(cs[k]), overlap, Len(split(cs[k]))))
         \o NonOverlapping(cs, k + 1)

(* C7: for a document cut into windows (N > max_chunk_size, 0 <= overlap <
   max_chunk_size) every word is in some chunk, and the first chunk followed
   by the non-overlapping parts of the later ones is the word sequence. *)
WindowsReconstructWords ==
    (Returned /\ WellFormed /\ ValidStep /\ WordCount > max_chunk_size) =>
        /\ NonOverlapping(chunks, 1) = split(TheItem.text)
        /\ \A j \in 1..WordCount :
              \E k \in 1..Len(chunks) :
                 \E p \in 1..Len(split(chunks[k])) :
                    split(chunks[k])[p] = split(TheItem.text)[j]

(* the documented example has been cut: its last window is shorter than the
   overlap region of the one before *)
WindowsReconstructWitness ==
    Returned /\ ExampleCall /\ Len(chunks) >= 2

(* C8: a document of at most max_chunk_size words gives exactly one chunk, the
   text as it was, under the reference as it was. *)
ShortDocumentKeptWhole ==
    (Returned /\ WellFormed /\ WordCount <= max_chunk_size) =>
        /\ chunks = <<TheItem.text>>
        /\ references = <<TheItem.reference>>

(* a text of exactly max_chunk_size words whose whitespace is not normalised *)
ShortDocumentWitness ==
    /\ Returned /\ WellFormed
    /\ WordCount = max_chunk_size
    /\ WordCount >= 2
    /\ join(split(TheItem.text)) # TheItem.text
    /\ chunks = <<TheItem.text>>

-----------------------------------------------------------------------------
(* Properties of E5Embedder.encode (SpecEncode) *)

(* the vectors of texts, one per text, in the order of texts *)
PassageVectors(texts) == [k \in 1..Len(texts) |-> model(Passage(texts[k]))]

(* C10: for every batch_size >= 1 and every sequence of texts, encode returns
   len(texts) vectors, the k-th being the encoding of "passage: " + texts[k],
   whatever the batch size. *)
EncodeReturnsEveryVector ==
    (pc # "encode") => (pc = "add" /\ embeddings = PassageVectors(chunks))

-----------------------------------------------------------------------------
(* Properties of the build run (Spec) *)

IsPrefix(p, q) == Len(p) <= Len(q) /\ SubSeq(q, 1, Len(p)) = p

(* chunk k is the whole text of record d, under its reference *)
Whole(k, d) ==
    /\ chunks[k] = legal_data[d].text
    /\ references[k] = legal_data[d].reference

(* chunk k is a run of words of record d starting at word s, under a
   fragment reference of d *)
WindowOf(k, d, s) ==
    LET ws == split(legal_data[d].text)
        r  == legal_data[d].reference
    IN  /\ IsPrefix(r \o <<" - Fragment ">>, references[k])
        /\ \E e \in s..Len(ws) : split(chunks[k]) = SubSeq(ws, s, e)

(* chunks k.. can be attributed to records in input order, the windows of one
   record from left to right: d is the record of chunk k-1 (0 for none) and
   s the least start its next window may have *)
RECURSIVE InOrder(_, _, _)
InOrder(k, d, s) ==
    IF k > Len(chunks) THEN TRUE
    ELSE \/ /\ d >= 1
            /\ \E t \in s..Len(split(legal_data[d].text)) :
                  WindowOf(k, d, t) /\ InOrder(k + 1, d, t + 1)
         \/ \E e \in (d + 1)..Len(legal_data) :
               /\ Chunkable(legal_data[e])
               /\ \/ Whole(k, e)
                        /\ InOrder(k + 1, e, Len(split(legal_data[e].text)) + 1)
                  \/ \E t \in 1..Len(split(legal_data[e].text)) :
                        WindowOf(k, e, t) /\ InOrder(k + 1, e, t + 1)

IndexBuilt == pc \in SavePcs \cup {"done", "killed"}

(* C4: chunks and references always have the same length, references[k] is a
   reference of the record chunks[k] was cut from (records in input order,
   windows left to right), and once the index is built it holds one vector
   per chunk, the k-th being the embedding of chunks[k]. *)
ParallelSequencesAligned ==
    /\ Len(chunks) = Len(references)
    /\ InOrder(1, 0, 1)
    /\ IndexBuilt =>
          /\ Len(index) = Len(chunks)
          /\ \A k \in 1..Len(chunks) : index[k] = model(Passage(chunks[k]))

(* an index over two records, one kept whole and one cut into windows that
   fill more than one batch *)
ParallelSequencesWitness ==
    /\ IndexBuilt
    /\ Len(legal_data) = 2
    /\ legal_data[1].reference # legal_data[2].reference
    /\ Len(all_embeddings) >= 2
    /\ \E k \in 1..Len(chunks) : chunks[k] = legal_data[1].text
    /\ \E k \in 1..Len(chunks) : chunks[k] # legal_data[2].text
                                 /\ IsPrefix(legal_data[2].reference, references[k])

(* C5: after a kill during save_index_components a reader who finds the index
   file also finds the completely written bundle of the same build. *)
KilledSaveLeavesNoLoneIndex ==
    (pc = "killed" /\ fs.index_state # "absent") =>
        /\ fs.index_state = "complete"
        /\ fs.bundle_state = "complete"
        /\ fs.index_data = PassageVectors(fs.bundle_data.chunks)

(* every chunk has been embedded and added to the index, without error *)
BuildComplete ==
    /\ pc \in SavePcs
    /\ error = ""
    /\ item_i > Len(legal_data)
    /\ ~(i < Len(chunks))
    /\ index = PassageVectors(chunks)

(* C9: nothing is written to the output directory unless loading, chunking,
   the embedding of every batch and the index construction have completed;
   a run that aborts leaves the directory as it was. *)
NothingWrittenBeforeBuilt ==
    [][(fs' # fs) => BuildComplete]_vars

(* a run that failed on a later batch, after an earlier batch was embedded *)
NothingWrittenWitness ==
    /\ pc = "aborted"
    /\ error = "RuntimeError"
    /\ all_embeddings # <<>>
    /\ fs \in {EmptyFs, OldFs}

====
